---- MODULE Spec2Model ----
(***************************************************************************)
(* A model of meshtastic/__init__.py: the StreamInterface reader thread    *)
(* (byte-stream framing), MeshInterface._handleFromRadio (session state    *)
(* and node registry) and the caller-side operations sendPacket,           *)
(* writeConfig and close.                                                  *)
(*                                                                         *)
(* The transport and the protobuf codec are external.  The bytes the       *)
(* device has put on the transport are the variable stream; the codec's    *)
(* verdict on a completed payload is an input of the reader step (\E m).   *)
(* Published pubsub events and transport writes of the most recent step    *)
(* are recorded, in program order, in out.                                 *)
(***************************************************************************)
EXTENDS Integers, Sequences, FiniteSets, TLC

VARIABLES
    input,        \* everything the device sends on the transport in this run
    stream,       \* the part of input the reader has not read yet
    rxBuf,        \* self._rxBuf
    rfBuf,        \* self.rfBuf, the attribute lines 308 and 315 assign:
                  \* "unset" | "empty"
    wantExit,     \* self._wantExit
    readerPc,     \* "loop" | "read" | "exited" | "crashed"
    callerPc,     \* "idle" | "joining" | "closed"
    debugOut,     \* TRUE iff a debugOut stream was given
    debugLog,     \* characters written to debugOut, in order
    rxLog,        \* payloads handed to _handleFromRadio, in order
    isConnected,  \* self.isConnected
    myInfo,       \* self.myInfo
    radioConfig,  \* self.radioConfig
    nodes,        \* self.nodes: user id -> node record
    nodesByNum,   \* self._nodesByNum: node num -> node record
    lastConn,     \* topic of the most recent meshtastic.connection.* event
    observer,     \* the application's connection.established subscriber:
                  \* "none" | "info" | "sendtext" (__main__.onConnected)
    pend,         \* the frame whose header the caller has written and whose
                  \* payload it has not, else NoFrame
    ctorPc,       \* the constructor's position: "fields" | "startConfig" | "done"
    step,         \* the operation executed by the most recent step
    out           \* its publishes, transport writes and raised/caught errors

vars == <<input, observer, pend, ctorPc, stream, rxBuf, rfBuf, wantExit, readerPc, callerPc, debugOut,
          debugLog, rxLog, isConnected, myInfo, radioConfig, nodes, nodesByNum,
          lastConn, step, out>>

readerVars == <<rxBuf, rfBuf, debugLog, rxLog>>
modelVars == <<isConnected, myInfo, radioConfig, nodes, nodesByNum>>

(***************************************************************************)
(* Program constants                                                       *)
(***************************************************************************)
START1 == 148
START2 == 195
HEADER_LEN == 4
MAX_TO_FROM_RADIO_SIZE == 512
BROADCAST_ADDR == "all"
BROADCAST_NUM == 255
MY_CONFIG_ID == 42

(***************************************************************************)
(* Bounds of the model                                                     *)
(***************************************************************************)
\* longest stream of arbitrary bytes the framing specification feeds
MaxStream == 6
\* payload bytes that follow the header in the long framing streams
MaxFill == 514
\* frames the device sends in the session specification
MaxFrames == 3

None == "None"
Empty == <<>>
EmptyDict == <<>>

Topic_established == "meshtastic.connection.established"
Topic_lost == "meshtastic.connection.lost"
Topic_node_updated == "meshtastic.node.updated"
Topic_receive_data == "meshtastic.receive.data"
Topic_receive_user == "meshtastic.receive.user"
Topic_receive_position == "meshtastic.receive.position"

ConnTopics == {Topic_established, Topic_lost}

(***************************************************************************)
(* Values                                                                  *)
(***************************************************************************)
\* Byte values of the framing streams: the two magic bytes and two others.
Bytes == {START1, START2, 0, 1}

Nums == {1, 2}
\* "" is what node.user.id reads as when the node-info carries no user.
UserIds == {"a", "b"}
NoUser == ""

\* A decoded FromRadio (one populated variant), or the codec's refusal.
\* kind is the payload variant of a packet: "position" | "user" | "data".
Msg(v, n, u, t) ==
    [variant |-> v, num |-> n, user |-> u, to |-> t, kind |-> ""]
NoMsg == Msg("-", 0, "", 0)
DecodeError == Msg("DecodeError", 0, "", 0)
EmptyMsg == Msg("", 0, "", 0)
MyInfoMsg == Msg("my_info", 0, "", 0)
RadioMsg == Msg("radio", 0, "", 0)
RadioMsg2 == Msg("radio", 1, "", 0)
NodeInfoMsg(n, u) == Msg("node_info", n, u, 0)
ConfigCompleteMsg(id) == Msg("config_complete_id", id, "", 0)
PacketOfKind(from, to, kind) ==
    [Msg("packet", from, "", to) EXCEPT !.kind = kind]
PacketMsg(from, to) == PacketOfKind(from, to, "data")
RebootedMsg == Msg("rebooted", 1, "", 0)

Messages ==
    {EmptyMsg, MyInfoMsg, RadioMsg, RadioMsg2, RebootedMsg,
     ConfigCompleteMsg(MY_CONFIG_ID), ConfigCompleteMsg(7),
     PacketMsg(1, BROADCAST_NUM), PacketOfKind(2, 1, "position"),
     PacketOfKind(1, 2, "user")}
    \cup {NodeInfoMsg(n, u) : n \in Nums, u \in UserIds \cup {NoUser}}

Decoded == Messages \cup {DecodeError}

\* A destination given to sendPacket: an int or a string.
IntDest(n) == [isInt |-> TRUE, num |-> n, id |-> ""]
StrDest(id) == [isInt |-> FALSE, num |-> 0, id |-> id]
NoDest == [isInt |-> FALSE, num |-> 0, id |-> "-"]
Dests == {IntDest(1), IntDest(BROADCAST_NUM), StrDest(BROADCAST_ADDR),
          StrDest("a"), StrDest("b")}

\* The operation a step executed.
Op(o, m, d) == [op |-> o, msg |-> m, dest |-> d]

\* One observable effect of a step.  conn and reg are self.isConnected and
\* len(self._nodesByNum) at the moment of the effect.
Effect(k, what, n, ids, s) ==
    [k |-> k, what |-> what, n |-> n, ids |-> ids,
     conn |-> s.isConnected, reg |-> Cardinality(DOMAIN s.nodesByNum)]
Pub(topic, ids, s) == Effect("pub", topic, 0, ids, s)
Write(what, n, s) == Effect("write", what, n, <<>>, s)
Raise(exc, s) == Effect("raise", exc, 0, <<>>, s)
Caught(exc, s) == Effect("caught", exc, 0, <<>>, s)

\* An outbound frame: what it carries; NoFrame when there is none.
FrameOf(what, n, ids) == [what |-> what, n |-> n, ids |-> ids]
NoFrame == FrameOf("-", 0, <<>>)

\* The interface's model fields, threaded through the methods in code order.
Self ==
    [isConnected |-> isConnected, myInfo |-> myInfo, radioConfig |-> radioConfig,
     nodes |-> nodes, nodesByNum |-> nodesByNum, wantExit |-> wantExit,
     out |-> <<>>]

Emit(s, e) == [s EXCEPT !.out = Append(s.out, e)]

(***************************************************************************)
(* MeshInterface                                                           *)
(***************************************************************************)
\* StreamInterface._sendToRadio: header and payload written to the stream.
SendToRadio(s, what, n) == Emit(s, Write(what, n, s))

Disconnected(s) ==
    LET t == [s EXCEPT !.isConnected = FALSE]
    IN  Emit(t, Pub(Topic_lost, <<>>, t))

\* close() called on the reader thread: the flag is set, the join is skipped
\* (self._rxThread == threading.current_thread()).
CloseOnReader(s) == [s EXCEPT !.wantExit = TRUE]

\* __main__.onConnected, run by pub.sendMessage on the publishing thread:
\* --sendtext sends the text to "all" (args.dest's default), --info prints;
\* either then closes the interface.
OnConnected(s) ==
    IF observer = "sendtext"
    THEN CloseOnReader(SendToRadio(s, "packet", BROADCAST_NUM))
    ELSE IF observer = "info" THEN CloseOnReader(s)
    ELSE s

Connected(s) ==
    LET t == [s EXCEPT !.isConnected = TRUE]
    IN  OnConnected(Emit(t, Pub(Topic_established, <<>>, t)))

StartConfig(s) ==
    LET t == [s EXCEPT !.myInfo = None, !.nodes = EmptyDict,
                       !.nodesByNum = EmptyDict, !.radioConfig = None]
    IN  SendToRadio(t, "want_config_id", MY_CONFIG_ID)

NodeNumToId(s, num) ==
    IF num = BROADCAST_NUM THEN BROADCAST_ADDR
    ELSE IF num \in DOMAIN s.nodesByNum THEN s.nodesByNum[num].user
    ELSE None

\* The topic the three HasField tests of lines 213-220 leave.
ReceiveTopic(kind) ==
    IF kind = "data" THEN Topic_receive_data
    ELSE IF kind = "user" THEN Topic_receive_user
    ELSE Topic_receive_position

\* Mutant: a packet whose sender or receiver is not in _nodesByNum is dropped
\* (the KeyError of the lookup escapes to the reader's except).
HandlePacketFromRadio_AbortOnMiss(s, m) ==
    IF NodeNumToId(s, m.num) = None \/ NodeNumToId(s, m.to) = None
    THEN Emit(s, Caught("KeyError", s))
    ELSE Emit(s, Pub(ReceiveTopic(m.kind),
                     <<NodeNumToId(s, m.num), NodeNumToId(s, m.to)>>, s))

HandlePacketFromRadio(s, m) ==
    Emit(s, Pub(ReceiveTopic(m.kind),
                <<NodeNumToId(s, m.num), NodeNumToId(s, m.to)>>, s))

HasField(m, f) == m.variant = f

\* Mutant: the id of a config-complete is not compared, any id counts as ours.
config_complete_id_AnyId(m) ==
    IF m.variant = "config_complete_id" THEN MY_CONFIG_ID ELSE 0

config_complete_id(m) == IF m.variant = "config_complete_id" THEN m.num ELSE 0
rebooted(m) == m.variant = "rebooted" /\ m.num = 1

\* Mutant: the record is stored by num only.
UpsertNode_NumOnly(s, m) ==
    [s EXCEPT !.nodesByNum = (m.num :> [num |-> m.num, user |-> m.user]) @@ @]

UpsertNode(s, m) ==
    LET node == [num |-> m.num, user |-> m.user]
    IN  [s EXCEPT !.nodesByNum = (m.num :> node) @@ @,
                  !.nodes = (m.user :> node) @@ @]

\* Mutant: the configuration restarts before connection.lost is published.
HandleReboot_RestartFirst(s) == Disconnected(StartConfig(s))

HandleReboot(s) == StartConfig(Disconnected(s))

\* fromRadio.radio: one of two configurations.
RadioOf(m) == IF m.num = 0 THEN "radio" ELSE "radio2"

\* Mutant: a payload the codec refuses ends the session.
HandleFromRadio_DecodeErrorFatal(s, m) ==
    IF m = DecodeError THEN Disconnected(s)
    ELSE IF HasField(m, "my_info") THEN [s EXCEPT !.myInfo = "my_info"]
    ELSE IF HasField(m, "radio") THEN [s EXCEPT !.radioConfig = RadioOf(m)]
    ELSE IF HasField(m, "node_info") THEN UpsertNode(s, m)
    ELSE IF config_complete_id(m) = MY_CONFIG_ID THEN Connected(s)
    ELSE IF HasField(m, "packet") THEN HandlePacketFromRadio(s, m)
    ELSE IF rebooted(m) THEN HandleReboot(s)
    ELSE s

\* _handleFromRadio, with the reader's try/except around it (lines 318-323).
HandleFromRadio(s, m) ==
    IF m = DecodeError THEN Emit(s, Caught("DecodeError", s))
    ELSE IF HasField(m, "my_info") THEN [s EXCEPT !.myInfo = "my_info"]
    ELSE IF HasField(m, "radio") THEN [s EXCEPT !.radioConfig = RadioOf(m)]
    ELSE IF HasField(m, "node_info") THEN UpsertNode(s, m)
    ELSE IF config_complete_id(m) = MY_CONFIG_ID THEN Connected(s)
    ELSE IF HasField(m, "packet") THEN HandlePacketFromRadio(s, m)
    ELSE IF rebooted(m) THEN HandleReboot(s)
    ELSE s

\* Mutant: an unknown string id falls back to broadcast.
ResolveNum_FallbackBroadcast(d) ==
    IF d.isInt THEN d.num
    ELSE IF d.id = BROADCAST_ADDR THEN 255
    ELSE IF d.id \in DOMAIN nodes THEN nodes[d.id].num
    ELSE BROADCAST_NUM

\* The destination number sendPacket computes; -1 stands for the KeyError of
\* self.nodes[destinationId].
ResolveNum(d) ==
    IF d.isInt THEN d.num
    ELSE IF d.id = BROADCAST_ADDR THEN 255
    ELSE IF d.id \in DOMAIN nodes THEN nodes[d.id].num
    ELSE -1

SendPacket_out(d) ==
    IF ResolveNum(d) = -1 THEN <<Raise("KeyError", Self)>>
    ELSE SendToRadio(Self, "packet", ResolveNum(d)).out

\* t.set_radio.CopyFrom(self.radioConfig); self._sendToRadio(t)
SendSetRadio(s) == Emit(s, Effect("write", "set_radio", 0, <<s.radioConfig>>, s))

\* Mutant: the radioConfig == None test is missing, an empty set_radio goes out.
WriteConfig_out_NoCheck == SendSetRadio(Self).out

WriteConfig_out ==
    IF radioConfig = None THEN <<Raise("Exception", Self)>>
    ELSE SendSetRadio(Self).out

(***************************************************************************)
(* StreamInterface.__reader                                                *)
(***************************************************************************)
\* b.decode("utf-8") of one byte, '?' (63) when that raises.
DecodeUtf8(c) == IF c < 128 THEN c ELSE 63

\* big endian length follows header
PacketLen(buf) == buf[3] * 256 + buf[4]

\* The payload handed to _handleFromRadio: self._rxBuf[HEADER_LEN:]
Payload(buf) == SubSeq(buf, HEADER_LEN + 1, Len(buf))

\* ptr == 0: looking for START1
LookForStart1(c, buf) ==
    [rxBuf |-> IF c # START1 THEN Empty ELSE buf,
     rfBuf |-> rfBuf,
     debugLog |-> IF c # START1 /\ debugOut
                  THEN Append(debugLog, DecodeUtf8(c)) ELSE debugLog,
     handed |-> FALSE]

\* ptr == 1: looking for START2
LookForStart2(c, buf) ==
    [rxBuf |-> buf,
     rfBuf |-> IF c # START2 THEN "empty" ELSE rfBuf,
     debugLog |-> debugLog,
     handed |-> FALSE]

\* ptr == HEADER_LEN: the length check, which leaves the buffer it returns
CheckLength(ptr, buf) ==
    [rxBuf |-> buf,
     rfBuf |-> IF ptr = HEADER_LEN /\ PacketLen(buf) > MAX_TO_FROM_RADIO_SIZE
               THEN "empty" ELSE rfBuf]

FrameComplete(ptr, buf) ==
    Len(buf) # 0 /\ ptr + 1 = PacketLen(buf) + HEADER_LEN

\* ptr >= HEADER_LEN: we've at least got a header
GotHeader(ptr, buf) ==
    LET chk == CheckLength(ptr, buf)
        done == FrameComplete(ptr, chk.rxBuf)
    IN  [rxBuf |-> IF done THEN Empty ELSE chk.rxBuf,
         rfBuf |-> chk.rfBuf,
         debugLog |-> debugLog,
         handed |-> done]

\* One byte c through the body of the reader loop (lines 291-324).
ReaderProcess(c) ==
    LET ptr == Len(rxBuf)
        buf == Append(rxBuf, c)
    IN  IF ptr = 0 THEN LookForStart1(c, buf)
        ELSE IF ptr = 1 THEN LookForStart2(c, buf)
        ELSE IF ptr >= HEADER_LEN THEN GotHeader(ptr, buf)
        ELSE [rxBuf |-> buf, rfBuf |-> rfBuf, debugLog |-> debugLog,
              handed |-> FALSE]

\* The topic of the last connection event among the effects o, else prev.
LastConnOf(o, prev) ==
    LET idx == {i \in DOMAIN o : o[i].k = "pub" /\ o[i].what \in ConnTopics}
    IN  IF idx = {} THEN prev
        ELSE o[CHOOSE i \in idx : \A j \in idx : j <= i].what

SetModel(s) ==
    /\ isConnected' = s.isConnected
    /\ myInfo' = s.myInfo
    /\ radioConfig' = s.radioConfig
    /\ nodes' = s.nodes
    /\ nodesByNum' = s.nodesByNum
    /\ wantExit' = s.wantExit
    /\ out' = s.out
    /\ lastConn' = LastConnOf(s.out, lastConn)

(***************************************************************************)
(* Actions                                                                 *)
(***************************************************************************)
\* while not self._wantExit: enter the blocking read
ReaderLoop ==
    /\ readerPc = "loop"
    /\ ~wantExit
    /\ readerPc' = "read"
    /\ step' = Op("loop", NoMsg, NoDest)
    /\ out' = <<>>
    /\ UNCHANGED <<input, observer, pend, ctorPc, stream, readerVars, wantExit,
                   callerPc, debugOut,
                   modelVars, lastConn>>

\* the loop ends: self.stream.close(); self._disconnected()
ReaderExit ==
    /\ readerPc = "loop"
    /\ wantExit
    /\ readerPc' = "exited"
    /\ step' = Op("exit", NoMsg, NoDest)
    /\ SetModel(Disconnected(Self))
    /\ UNCHANGED <<input, observer, pend, ctorPc, stream, readerVars, callerPc,
                   debugOut>>

\* self.stream.read(1) returns one byte; m is what the codec makes of the
\* payload if this byte completes a frame.
ReadByte(m) ==
    /\ readerPc = "read"
    /\ ctorPc = "done"
    /\ stream # <<>>
    /\ LET r == ReaderProcess(Head(stream))
           payload == Payload(Append(rxBuf, Head(stream)))
       IN  /\ rxBuf' = r.rxBuf
           /\ rfBuf' = r.rfBuf
           /\ debugLog' = r.debugLog
           /\ rxLog' = IF r.handed THEN Append(rxLog, payload) ELSE rxLog
           /\ step' = Op("read", IF r.handed THEN m ELSE NoMsg, NoDest)
           /\ SetModel(IF r.handed THEN HandleFromRadio(Self, m) ELSE Self)
    /\ stream' = Tail(stream)
    /\ readerPc' = "loop"
    /\ UNCHANGED <<input, observer, pend, ctorPc, callerPc, debugOut>>

\* Mutant: a read without timeout never returns empty-handed.
ReadTimeout_Blocking ==
    /\ readerPc = "read"
    /\ FALSE
    /\ UNCHANGED vars

\* self.stream.read(1) returns nothing after the 0.5 s timeout
ReadTimeout ==
    /\ readerPc = "read"
    /\ readerPc' = "loop"
    /\ step' = Op("timeout", NoMsg, NoDest)
    /\ out' = <<>>
    /\ UNCHANGED <<input, observer, pend, ctorPc, stream, readerVars, wantExit,
                   callerPc, debugOut,
                   modelVars, lastConn>>

\* self.stream.read(1) raises: nothing in __reader catches it
ReadError ==
    /\ readerPc = "read"
    /\ readerPc' = "crashed"
    /\ step' = Op("readError", NoMsg, NoDest)
    /\ out' = <<>>
    /\ UNCHANGED <<input, observer, pend, ctorPc, stream, readerVars, wantExit,
                   callerPc, debugOut,
                   modelVars, lastConn>>

SendPacket(d) ==
    /\ callerPc # "joining"
    /\ step' = Op("sendPacket", NoMsg, d)
    /\ out' = SendPacket_out(d)
    /\ UNCHANGED <<input, observer, pend, ctorPc, stream, readerVars, wantExit,
                   readerPc, callerPc,
                   debugOut, modelVars, lastConn>>

WriteConfig ==
    /\ callerPc # "joining"
    /\ step' = Op("writeConfig", NoMsg, NoDest)
    /\ out' = WriteConfig_out
    /\ UNCHANGED <<input, observer, pend, ctorPc, stream, readerVars, wantExit,
                   readerPc, callerPc,
                   debugOut, modelVars, lastConn>>

\* close() from the caller's thread: set the flag, then join the reader
Close ==
    /\ callerPc = "idle"
    /\ wantExit' = TRUE
    /\ callerPc' = "joining"
    /\ step' = Op("close", NoMsg, NoDest)
    /\ out' = <<>>
    /\ UNCHANGED <<input, observer, pend, ctorPc, stream, readerVars, readerPc,
                   debugOut, modelVars,
                   lastConn>>

\* Mutant: close() returns without joining the reader thread.
CloseReturn_NoJoin ==
    /\ callerPc = "joining"
    /\ callerPc' = "closed"
    /\ step' = Op("closeReturn", NoMsg, NoDest)
    /\ out' = <<>>
    /\ UNCHANGED <<input, observer, pend, ctorPc, stream, readerVars, wantExit,
                   readerPc, debugOut, modelVars, lastConn>>

\* self._rxThread.join() returns once the reader thread has ended
CloseReturn ==
    /\ callerPc = "joining"
    /\ readerPc \in {"exited", "crashed"}
    /\ callerPc' = "closed"
    /\ step' = Op("closeReturn", NoMsg, NoDest)
    /\ out' = <<>>
    /\ UNCHANGED <<input, observer, pend, ctorPc, stream, readerVars, wantExit,
                   readerPc, debugOut,
                   modelVars, lastConn>>

(***************************************************************************)
(* Specifications                                                          *)
(***************************************************************************)
\* One well-formed frame with a one-byte payload.
Frame == <<START1, START2, 0, 1, 0>>
Frames(n) == [i \in 1..(n * Len(Frame)) |-> Frame[((i - 1) % Len(Frame)) + 1]]

\* The state the constructor leaves: _startConfig has reset the model and
\* written the want_config_id request.
InitCommon ==
    /\ stream = input
    /\ rxBuf = Empty
    /\ rfBuf = "unset"
    /\ wantExit = FALSE
    /\ readerPc = "loop"
    /\ callerPc = "idle"
    /\ debugLog = <<>>
    /\ rxLog = <<>>
    /\ isConnected = FALSE
    /\ myInfo = None
    /\ radioConfig = None
    /\ nodes = EmptyDict
    /\ nodesByNum = EmptyDict
    /\ lastConn = "-"
    /\ pend = NoFrame
    /\ ctorPc = "done"
    /\ step = Op("__init__", NoMsg, NoDest)
    /\ out = StartConfig(Self).out

\* Session specification: the device sends MaxFrames well-formed frames, the
\* codec decodes each to any message, the caller sends, writes and closes.
Init ==
    /\ input = Frames(MaxFrames)
    /\ debugOut = FALSE
    /\ observer = "none"
    /\ InitCommon

Next ==
    \/ ReaderLoop
    \/ ReaderExit
    \/ \E m \in Decoded : ReadByte(m)
    \/ ReadTimeout
    \/ ReadError
    \/ \E d \in Dests : SendPacket(d)
    \/ WriteConfig
    \/ Close
    \/ CloseReturn

Spec == Init /\ [][Next]_vars

\* Framing specification: the device sends arbitrary bytes; payloads mean
\* nothing to the codec.
ShortStreams == UNION {[1..n -> Bytes] : n \in 0..MaxStream}
LongStreams ==
    {<<START1, START2, hi, lo>> \o [i \in 1..MaxFill |-> 0] :
        hi \in {0, 2}, lo \in {0, 1}}

\* a zero-length frame, and a lone START1 with a junk byte, before a frame
ScenarioStreams == {<<START1, START2, 0, 0>> \o Frame, <<START1, 0>> \o Frame}

InitReader ==
    /\ input \in ShortStreams \cup LongStreams \cup ScenarioStreams
    /\ debugOut \in BOOLEAN
    /\ observer = "none"
    /\ InitCommon

NextReader ==
    \/ ReaderLoop
    \/ ReadByte(DecodeError)
    \/ ReadTimeout

SpecReader == InitReader /\ [][NextReader]_vars

\* Termination specification: the session of Spec with an observer of
\* meshtastic.connection.established that may close the interface from the
\* reader thread, every read returning, and the threads scheduled fairly.
Observers == {"none", "info", "sendtext"}

InitLive ==
    /\ input = Frames(MaxFrames)
    /\ debugOut = FALSE
    /\ observer \in Observers
    /\ InitCommon

NextLive ==
    \/ ReaderLoop
    \/ ReaderExit
    \/ \E m \in Decoded : ReadByte(m)
    \/ ReadTimeout
    \/ Close
    \/ CloseReturn

SpecLive ==
    /\ InitLive
    /\ [][NextLive]_vars
    /\ WF_vars(ReaderLoop)
    /\ WF_vars(ReaderExit)
    /\ WF_vars(ReadTimeout \/ \E m \in Decoded : ReadByte(m))
    /\ WF_vars(CloseReturn)

\* Interleaving specification: the caller's writeConfig and sendPacket run
\* line by line against the reader thread.  A method of the caller is at
\* callerPc "wcEncode" between writeConfig's test and its CopyFrom, and at
\* "body" between _sendToRadio's two stream.write calls, where pend is the
\* frame whose header is on the stream and whose payload is not.

\* if self.radioConfig == None: raise Exception(...)
WriteConfigCheck ==
    /\ callerPc = "idle"
    /\ callerPc' = IF radioConfig = None THEN "idle" ELSE "wcEncode"
    /\ out' = IF radioConfig = None THEN <<Raise("Exception", Self)>> ELSE <<>>
    /\ step' = Op("writeConfigCheck", NoMsg, NoDest)
    /\ UNCHANGED <<input, observer, pend, ctorPc, stream, readerVars, wantExit,
                   readerPc, debugOut, modelVars, lastConn>>

\* t.set_radio.CopyFrom(self.radioConfig), which raises TypeError for None,
\* then _sendToRadio up to self.stream.write(header)
WriteConfigEncode ==
    /\ callerPc = "wcEncode"
    /\ IF radioConfig = None
       THEN /\ out' = <<Raise("TypeError", Self)>>
            /\ callerPc' = "idle"
            /\ pend' = pend
       ELSE /\ out' = <<Write("header", 0, Self)>>
            /\ callerPc' = "body"
            /\ pend' = FrameOf("set_radio", 0, <<radioConfig>>)
    /\ step' = Op("writeConfigEncode", NoMsg, NoDest)
    /\ UNCHANGED <<input, observer, ctorPc, stream, readerVars, wantExit,
                   readerPc, debugOut, modelVars, lastConn>>

\* sendPacket up to self.stream.write(header) in _sendToRadio
SendPacketHeader(d) ==
    /\ callerPc = "idle"
    /\ IF ResolveNum(d) = -1
       THEN /\ out' = <<Raise("KeyError", Self)>>
            /\ callerPc' = "idle"
            /\ pend' = pend
       ELSE /\ out' = <<Write("header", ResolveNum(d), Self)>>
            /\ callerPc' = "body"
            /\ pend' = FrameOf("packet", ResolveNum(d), <<>>)
    /\ step' = Op("sendHeader", NoMsg, d)
    /\ UNCHANGED <<input, observer, ctorPc, stream, readerVars, wantExit,
                   readerPc, debugOut, modelVars, lastConn>>

\* self.stream.write(b); self.stream.flush()
SendBody ==
    /\ callerPc = "body"
    /\ out' = <<Effect("write", pend.what, pend.n, pend.ids, Self)>>
    /\ callerPc' = "idle"
    /\ pend' = NoFrame
    /\ step' = Op("sendBody", NoMsg, NoDest)
    /\ UNCHANGED <<input, observer, ctorPc, stream, readerVars, wantExit,
                   readerPc, debugOut, modelVars, lastConn>>

InitConc ==
    /\ input = Frames(MaxFrames)
    /\ debugOut = FALSE
    /\ observer \in {"none", "sendtext"}
    /\ InitCommon

NextConc ==
    \/ ReaderLoop
    \/ ReaderExit
    \/ \E m \in Decoded : ReadByte(m)
    \/ ReadTimeout
    \/ WriteConfigCheck
    \/ WriteConfigEncode
    \/ \E d \in Dests : SendPacketHeader(d)
    \/ SendBody

SpecConc == InitConc /\ [][NextConc]_vars

\* Construction specification: StreamInterface.__init__ starts the reader
\* thread before it calls MeshInterface.__init__, so the reader runs against
\* the rest of the constructor.  ctorPc is "fields" before debugOut, nodes
\* and isConnected are assigned, "startConfig" before _startConfig has run,
\* "done" after.  Until a field is assigned the variable that models it
\* holds a placeholder no action reads.

\* self.debugOut = debugOut; self.nodes = None; self.isConnected = False
CtorFields ==
    /\ ctorPc = "fields"
    /\ ctorPc' = "startConfig"
    /\ isConnected' = FALSE
    /\ step' = Op("__init__", NoMsg, NoDest)
    /\ out' = <<>>
    /\ UNCHANGED <<input, observer, pend, stream, readerVars, wantExit,
                   readerPc, callerPc, debugOut, myInfo, radioConfig, nodes,
                   nodesByNum, lastConn>>

\* self._startConfig(), the constructor's last statement
CtorStartConfig ==
    /\ ctorPc = "startConfig"
    /\ ctorPc' = "done"
    /\ step' = Op("__init__", NoMsg, NoDest)
    /\ SetModel(StartConfig(Self))
    /\ UNCHANGED <<input, observer, pend, stream, readerVars, readerPc,
                   callerPc, debugOut>>

\* _handleFromRadio while _nodesByNum does not exist yet: node_info raises
\* AttributeError, which the reader catches; _nodeNumToId's bare except turns
\* the same error into None; the other branches only assign.
HandleFromRadioEarly(s, m) ==
    IF m = DecodeError THEN Emit(s, Caught("DecodeError", s))
    ELSE IF HasField(m, "my_info") THEN [s EXCEPT !.myInfo = "my_info"]
    ELSE IF HasField(m, "radio") THEN [s EXCEPT !.radioConfig = RadioOf(m)]
    ELSE IF HasField(m, "node_info") THEN Emit(s, Caught("AttributeError", s))
    ELSE IF config_complete_id(m) = MY_CONFIG_ID THEN Connected(s)
    ELSE IF HasField(m, "packet") THEN HandlePacketFromRadio(s, m)
    ELSE s

\* A byte read before the constructor has finished.  A byte other than
\* START1 at ptr == 0 reads self.debugOut: before it is assigned that raises
\* AttributeError outside any try, and the thread ends.
ReadByteEarly(m) ==
    /\ readerPc = "read"
    /\ ctorPc # "done"
    /\ stream # <<>>
    /\ stream' = Tail(stream)
    /\ IF ctorPc = "fields" /\ rxBuf = Empty /\ Head(stream) # START1
       THEN /\ readerPc' = "crashed"
            /\ step' = Op("read", NoMsg, NoDest)
            /\ rxBuf' = Empty
            /\ out' = <<Raise("AttributeError", Self)>>
            /\ UNCHANGED <<rfBuf, debugLog, rxLog, modelVars, wantExit, lastConn>>
       ELSE LET r == ReaderProcess(Head(stream))
                payload == Payload(Append(rxBuf, Head(stream)))
            IN  /\ readerPc' = "loop"
                /\ rxBuf' = r.rxBuf
                /\ rfBuf' = r.rfBuf
                /\ debugLog' = r.debugLog
                /\ rxLog' = IF r.handed THEN Append(rxLog, payload) ELSE rxLog
                /\ step' = Op("read", IF r.handed THEN m ELSE NoMsg, NoDest)
                /\ SetModel(IF r.handed THEN HandleFromRadioEarly(Self, m)
                            ELSE Self)
    /\ UNCHANGED <<input, observer, pend, ctorPc, callerPc, debugOut>>

\* What the codec makes of a frame read during construction; a rebooted
\* signal that early is left out.
EarlyDecoded == Decoded \ {RebootedMsg}

\* a frame, a junk byte before a frame, two frames
CtorStreams == {Frame, <<0>> \o Frame, Frame \o Frame}

\* The state when self._rxThread.start() has returned.
InitCtor ==
    /\ input \in CtorStreams
    /\ stream = input
    /\ debugOut \in BOOLEAN
    /\ observer = "none"
    /\ rxBuf = Empty
    /\ rfBuf = "unset"
    /\ wantExit = FALSE
    /\ readerPc = "loop"
    /\ callerPc = "idle"
    /\ debugLog = <<>>
    /\ rxLog = <<>>
    /\ isConnected = FALSE
    /\ myInfo = None
    /\ radioConfig = None
    /\ nodes = EmptyDict
    /\ nodesByNum = EmptyDict
    /\ lastConn = "-"
    /\ pend = NoFrame
    /\ ctorPc = "fields"
    /\ step = Op("start", NoMsg, NoDest)
    /\ out = <<>>

NextCtor ==
    \/ CtorFields
    \/ CtorStartConfig
    \/ ReaderLoop
    \/ ReadTimeout
    \/ \E m \in EarlyDecoded : ReadByteEarly(m)
    \/ \E m \in Decoded : ReadByte(m)

SpecCtor == InitCtor /\ [][NextCtor]_vars

(***************************************************************************)
(* Properties                                                              *)
(***************************************************************************)
HasPub(o, topic) == \E i \in DOMAIN o : o[i].k = "pub" /\ o[i].what = topic
HasWrite(o) == \E i \in DOMAIN o : o[i].k = "write"
IsConnEvent(e) == e.k = "pub" /\ e.what \in ConnTopics
Handled(m) == step.op = "read" /\ step.msg = m

MagicFree(j) ==
    \A i \in 1..(Len(j) - 1) : ~(j[i] = START1 /\ j[i + 1] = START2)
ValidFrame(f) ==
    /\ Len(f) >= HEADER_LEN
    /\ f[1] = START1
    /\ f[2] = START2
    /\ PacketLen(f) <= MAX_TO_FROM_RADIO_SIZE
    /\ Len(f) = HEADER_LEN + PacketLen(f)
AsWritten(j) == [i \in 1..Len(j) |-> DecodeUtf8(j[i])]

\* C1: when the input is a junk prefix free of the magic pair followed by one
\* valid frame (0 <= L <= 512), the reader, once it has read it all, has handed
\* exactly one payload, the frame's, to _handleFromRadio and has written every
\* junk byte, in order, to debugOut.
C1_JunkThenFrame ==
    \A k \in 0..Len(input) :
        ( /\ debugOut
          /\ stream = <<>>
          /\ readerPc = "loop"
          /\ MagicFree(SubSeq(input, 1, k))
          /\ ValidFrame(SubSeq(input, k + 1, Len(input))) )
        => /\ rxLog = <<SubSeq(input, k + HEADER_LEN + 1, Len(input))>>
           /\ debugLog = AsWritten(SubSeq(input, 1, k))

\* C2: a header whose length is above 512 is discarded when the header check
\* runs: the buffer never holds such a header past that check, and no payload
\* longer than 512 bytes is handed to _handleFromRadio.
C2_OversizeDiscarded ==
    /\ ( /\ Len(rxBuf) > HEADER_LEN
         /\ rxBuf[1] = START1
         /\ rxBuf[2] = START2 )
       => PacketLen(rxBuf) <= MAX_TO_FROM_RADIO_SIZE
    /\ \A i \in DOMAIN rxLog : Len(rxLog[i]) <= MAX_TO_FROM_RADIO_SIZE

\* C3: once the reader, starting empty, has consumed 94 C3 00 00, it has
\* called _handleFromRadio exactly once, with the empty payload, and its
\* buffer is empty again.
C3_ZeroLengthFrame ==
    ( /\ Len(input) >= HEADER_LEN
      /\ SubSeq(input, 1, HEADER_LEN) = <<START1, START2, 0, 0>>
      /\ Len(stream) = Len(input) - HEADER_LEN
      /\ readerPc = "loop" )
    => rxLog = <<Empty>> /\ rxBuf = Empty

C5_EstablishedOncePerEntry ==
    [][\A i \in DOMAIN out' :
          (IsConnEvent(out'[i]) /\ out'[i].what = Topic_established)
          => lastConn # Topic_established]_vars

\* C6: after a read on the transport raised, the session is Disconnected:
\* isConnected is False and connection.lost has been published.
C6_ReadErrorDisconnects ==
    step.op = "readError" => (~isConnected /\ HasPub(out, Topic_lost))

\* C7: the step that handles a node-info message stores the record under its
\* num and publishes meshtastic.node.updated.
C7_UpsertPublishes ==
    (step.op = "read" /\ step.msg.variant = "node_info")
    => /\ step.msg.num \in DOMAIN nodesByNum
       /\ nodesByNum[step.msg.num] = [num |-> step.msg.num, user |-> step.msg.user]
       /\ HasPub(out, Topic_node_updated)

C9_RebootResetsAndRequests ==
    [][ /\ (step'.op = "read" /\ step'.msg = RebootedMsg)
           => /\ Len(out') = 2
              /\ out'[1].k = "pub"
              /\ out'[1].what = Topic_lost
              /\ out'[1].conn = FALSE
              /\ out'[1].reg = Cardinality(DOMAIN nodesByNum)
              /\ out'[2].k = "write"
              /\ out'[2].what = "want_config_id"
              /\ out'[2].n = MY_CONFIG_ID
              /\ out'[2].reg = 0
              /\ nodes' = EmptyDict
              /\ nodesByNum' = EmptyDict
              /\ myInfo' = None
              /\ radioConfig' = None
              /\ isConnected' = FALSE
        /\ (isConnected' /\ ~isConnected)
           => step'.msg = ConfigCompleteMsg(MY_CONFIG_ID)
        /\ step'.op = "exit"
           => /\ Len(out') = 1
              /\ out'[1].k = "pub"
              /\ out'[1].what = Topic_lost
              /\ out'[1].conn = FALSE
              /\ UNCHANGED <<myInfo, radioConfig, nodes, nodesByNum>> ]_vars

\* C9 witness: a rebooted signal was handled in a connected session with a
\* node in the registry.
C9_Witness ==
    /\ Handled(RebootedMsg)
    /\ Len(out) = 2
    /\ out[1].reg = 1
    /\ out[2].what = "want_config_id"
    /\ nodesByNum = EmptyDict
    /\ ~isConnected

\* C10: sendPacket writes one packet frame addressed to the int given, to
\* 255 for "all", to the num of the record nodes holds for a string id; for a
\* string id nodes does not hold it raises and writes nothing; it changes
\* neither the registry nor the session.
C10_SendResolvesDestination ==
    [][ step'.op = "sendPacket"
        => LET d == step'.dest
               sentTo(n) == /\ Len(out') = 1
                            /\ out'[1].k = "write"
                            /\ out'[1].what = "packet"
                            /\ out'[1].n = n
           IN  /\ UNCHANGED <<modelVars, readerVars, lastConn, wantExit>>
               /\ d.isInt => sentTo(d.num)
               /\ (~d.isInt /\ d.id = "all") => sentTo(255)
               /\ (~d.isInt /\ d.id # "all" /\ d.id \in DOMAIN nodes)
                  => sentTo(nodes[d.id].num)
               /\ (~d.isInt /\ d.id # "all" /\ d.id \notin DOMAIN nodes)
                  => /\ Len(out') = 1
                     /\ out'[1].k = "raise"
                     /\ ~HasWrite(out') ]_vars

\* C10 witness: sendPacket to "b" raised while nodes held "a" only.
C10_Witness ==
    /\ step.op = "sendPacket"
    /\ step.dest = StrDest("b")
    /\ DOMAIN nodes = {"a"}
    /\ Len(out) = 1
    /\ out[1].k = "raise"

\* C11: writeConfig with no radio configuration held (none received since
\* the last _startConfig) raises, writes nothing and changes nothing; with
\* one held it writes exactly one set_radio frame carrying it.  A radio
\* configuration is held exactly from the handling of a radio message to the
\* next rebooted signal.
C11_WriteConfigNeedsSnapshot ==
    [][ /\ step'.op = "writeConfig"
           => /\ UNCHANGED <<modelVars, readerVars, lastConn, wantExit>>
              /\ Len(out') = 1
              /\ radioConfig = None
                 => (out'[1].k = "raise" /\ out'[1].what = "Exception")
              /\ radioConfig # None
                 => /\ out'[1].k = "write"
                    /\ out'[1].what = "set_radio"
                    /\ out'[1].ids = <<radioConfig>>
        /\ radioConfig' # None
           <=> \/ step'.op = "read" /\ step'.msg.variant = "radio"
               \/ radioConfig # None /\ ~(step'.op = "read" /\ step'.msg = RebootedMsg)
      ]_vars

\* C11 witness: writeConfig raised after a radio configuration was received
\* and a rebooted signal discarded it.
C11_Witness ==
    /\ step.op = "writeConfig"
    /\ out[1].k = "raise"
    /\ radioConfig = None
    /\ Len(rxLog) = 2
    /\ lastConn = Topic_lost

ReaderOps == {"loop", "read", "timeout", "readError", "exit"}

\* C13: close() from the caller's thread has set _wantExit and returns only
\* when the reader thread has ended; once it has returned the reader takes no
\* step: nothing is handed to _handleFromRadio and nothing is published.
C13_CloseJoinsReader ==
    [][ /\ callerPc' = "closed"
           => (wantExit' /\ readerPc' \in {"exited", "crashed"})
        /\ callerPc = "closed"
           => /\ step'.op \notin ReaderOps
              /\ rxLog' = rxLog
              /\ \A i \in DOMAIN out' : out'[i].k # "pub" ]_vars

\* C13 witness: close() has returned with frames left unread, after the
\* reader handled one frame and exited.
C13_Witness ==
    /\ callerPc = "closed"
    /\ readerPc = "exited"
    /\ Len(rxLog) = 1
    /\ stream # <<>>

\* C14: a buffer of two or more bytes starts with START1, START2 (a byte
\* other than START2 after a lone START1 empties the buffer), so every
\* payload handed to _handleFromRadio comes from such a buffer.
C14_MismatchResetsBuffer ==
    Len(rxBuf) >= 2 => (rxBuf[1] = START1 /\ rxBuf[2] = START2)

\* C15: the accumulation buffer never holds more than HEADER_LEN +
\* MAX_TO_FROM_RADIO_SIZE bytes.
C15_BufferBounded ==
    Len(rxBuf) <= HEADER_LEN + MAX_TO_FROM_RADIO_SIZE

\* C16: a payload the codec refuses is caught in the reader: the buffer is
\* emptied, the thread goes on to its next read, the model is unchanged and
\* nothing but the caught error comes out (no connection event); after the
\* handling of any frame, refused or not, the buffer is empty.
C16_HandlerFailureCaught ==
    [][ /\ (step'.op = "read" /\ step'.msg = DecodeError)
           => /\ rxBuf' = Empty
              /\ readerPc' = "loop"
              /\ Len(rxLog') = Len(rxLog) + 1
              /\ UNCHANGED <<modelVars, lastConn, wantExit>>
              /\ Len(out') = 1
              /\ out'[1].k = "caught"
        /\ Len(rxLog') > Len(rxLog)
           => (rxBuf' = Empty /\ readerPc' \in {"loop", "exited"}) ]_vars

\* C16 witness: a refused frame was caught in a connected session with
\* frames still to come; the reader is back at the top of its loop with an
\* empty buffer.
C16_Witness ==
    /\ Handled(DecodeError)
    /\ out[1].k = "caught"
    /\ Len(rxLog) = 2
    /\ isConnected
    /\ lastConn = Topic_established
    /\ rxBuf = Empty
    /\ readerPc = "loop"
    /\ stream # <<>>

\* C17: once _wantExit is set, by close() on the caller's thread or by an
\* observer calling close() on the reader thread, the reader eventually
\* leaves its loop and publishes meshtastic.connection.lost with isConnected
\* False; a close() waiting in join eventually returns.
C17_CloseTerminates ==
    /\ wantExit ~> (readerPc = "exited" /\ ~isConnected /\ lastConn = Topic_lost)
    /\ (callerPc = "joining") ~> (callerPc = "closed")

\* C17 witness: the observer closed the interface from the reader thread
\* after sending its text; the reader has exited although the caller never
\* called close().
C17_Witness ==
    /\ observer = "sendtext"
    /\ callerPc = "idle"
    /\ wantExit
    /\ readerPc = "exited"
    /\ lastConn = Topic_lost

\* C18: writeConfig never passes its radioConfig test and then encodes an
\* absent radioConfig: the step that runs CopyFrom always writes the frame's
\* header and never raises.
C18_CheckThenEncodeSerialized ==
    (step.op = "writeConfigEncode")
    => (Len(out) = 1 /\ out[1].k = "write" /\ pend.ids # <<None>>)

\* C19: while a caller's header is on the stream and its payload is not, the
\* only write to the stream is that payload.
C19_FramesContiguous ==
    [][ (pend # NoFrame /\ HasWrite(out')) => step'.op = "sendBody" ]_vars

\* C20: the reader thread never ends on a field the constructor has not
\* assigned yet, and a constructor step never overwrites what the reader
\* made of a frame: when the constructor assigns isConnected the session is
\* not connected, and when it runs _startConfig myInfo and radioConfig are
\* still None.
C20_ConstructionBeforeReading ==
    [][ /\ readerPc' # "crashed"
        /\ (ctorPc = "fields" /\ ctorPc' = "startConfig") => ~isConnected
        /\ (ctorPc = "startConfig" /\ ctorPc' = "done")
           => (myInfo = None /\ radioConfig = None) ]_vars

====
